---------------------------- MODULE Spec2Model ----------------------------
(***************************************************************************)
(* Model of the two scripts of the repository:                             *)
(*   GRASSHOPPER/FURNITURE/parametric_cabinet.py  (create_parametric_cabinet)*)
(*   scripts/BlockLibrary.py                      (the block importer)     *)
(*                                                                         *)
(* Numbers of the cabinet script are Python floats. They are modelled as   *)
(* exact rationals <<numerator, denominator>> in lowest terms, so a        *)
(* division (width / 2, available_height / (shelf_count + 1)) is a real    *)
(* division and not an integer one.                                        *)
(***************************************************************************)
EXTENDS Integers, Sequences, FiniteSets, TLC

VARIABLES
    \* ---- parametric_cabinet.py ----
    params,      \* the five arguments of the call
    cpc,         \* "start" before the call, "done" after it
    result,      \* "none" | "returned" | "crashed"
    objects,     \* the objects the call added to sc.doc.Objects, in order
    layers,      \* sc.doc.Layers: the layer names, index 0 first
    \* ---- BlockLibrary.py ----
    pc,          \* position of the script
    runs,        \* times main() was started
    docBlocks,   \* rs.BlockNames(): the block definitions of the document
    instances,   \* block instances inserted into the document
    cacheDir,    \* whether CACHE_DIR exists
    cache,       \* files in CACHE_DIR
    catalog,     \* what load_catalog returned to its caller
    category,    \* the category picked in browse_and_insert
    block_info,  \* the catalog entry handed to insert_block
    insert_point,\* the point rs.GetPoint returned
    docAtEntry,  \* docBlocks and instances when main() was started
    log          \* calls made to Rhino and to the network since main() started

cvars == <<params, cpc, result, objects, layers>>
bvars == <<pc, runs, docBlocks, instances, cacheDir, cache, catalog, category,
           block_info, insert_point, docAtEntry, log>>
vars == <<params, cpc, result, objects, layers,
          pc, runs, docBlocks, instances, cacheDir, cache, catalog, category,
          block_info, insert_point, docAtEntry, log>>

\* Largest shelf_count tried.
MaxShelves == 3
\* Times main() of the block importer is run on the same document.
MaxRuns == 3

-----------------------------------------------------------------------------
(* Float arithmetic, as exact rationals *)

Abs(n) == IF n < 0 THEN -n ELSE n

RECURSIVE GCD(_, _)
GCD(a, b) == IF b = 0 THEN a ELSE GCD(b, a % b)

\* n/d in lowest terms with a positive denominator (d # 0).
R(n, d) ==
    LET g == GCD(Abs(n), Abs(d))
        s == IF d < 0 THEN -1 ELSE 1
    IN  <<(s * n) \div g, (s * d) \div g>>

RAdd(a, b) == R(a[1] * b[2] + b[1] * a[2], a[2] * b[2])
RSub(a, b) == R(a[1] * b[2] - b[1] * a[2], a[2] * b[2])
RMul(a, b) == R(a[1] * b[1], a[2] * b[2])
RDiv(a, b) == R(a[1] * b[2], a[2] * b[1])
RLt(a, b) == a[1] * b[2] < b[1] * a[2]
RLe(a, b) == a[1] * b[2] <= b[1] * a[2]
RMin(a, b) == IF RLe(a, b) THEN a ELSE b
RMax(a, b) == IF RLe(a, b) THEN b ELSE a
Zero == R(0, 1)
Two == R(2, 1)

\* format(x, ".<k>f") for scale = 10^k: x * scale rounded to the nearest integer,
\* a tie to the even one (the values used here are exact binary fractions).
RoundHalfEven(x, scale) ==
    LET n == x[1] * scale
        d == x[2]
        q == n \div d
        r == n - q * d
    IN  IF 2 * r < d THEN q
        ELSE IF 2 * r > d THEN q + 1
        ELSE IF q % 2 = 0 THEN q ELSE q + 1

-----------------------------------------------------------------------------
(* parametric_cabinet.py: the construction constants *)

back_thickness == R(1, 2)
door_gap == R(1, 8)
top_gap == R(1, 8)
bottom_gap == Zero
stretcher_width == R(4, 1)
pull_from_edge == R(37, 8)
pull_from_top == R(1, 16)
HingeY == R(73, 50)
DoorY == R(-7, 8)

(* the derived dimensions *)

side_width(p) == RSub(p.depth, R(7, 8))
back_width(p) == RSub(p.width, R(1, 1))
bottom_width(p) == RSub(p.width, R(3, 2))
bottom_depth(p) == RSub(RSub(side_width(p), R(1, 1)), R(1, 16))
shelf_width(p) == RSub(bottom_width(p), R(1, 16))
shelf_depth(p) == RSub(side_width(p), R(5, 4))
available_height(p) ==
    RSub(RSub(p.height, R(3, 2)), RMul(R(p.shelf_count, 1), p.thickness))
shelf_spacing(p) == RDiv(available_height(p), R(p.shelf_count + 1, 1))
\* z_pos of the shelf built in iteration i of the loop (i = 0 .. shelf_count-1)
z_pos(p, i) ==
    RAdd(RAdd(p.thickness, RMul(R(i + 1, 1), shelf_spacing(p))),
         RMul(R(i, 1), p.thickness))
door_height(p) == RSub(RSub(p.height, top_gap), bottom_gap)
\* door_width with half a gap taken off, not a whole one
DoorWidthHalfGap(p) ==
    RSub(RDiv(RSub(p.width, door_gap), Two), RDiv(door_gap, Two))
door_width(p) == RSub(RDiv(RSub(p.width, door_gap), Two), door_gap)
LeftDoorX(p) == RDiv(door_gap, Two)
RightDoorX(p) == RAdd(RDiv(p.width, Two), RDiv(door_gap, Two))
\* hinge_z_positions with the upper offset of 3.0 left out
HingeZOneOffset(p) == <<R(3, 1), p.height>>
hinge_z_positions(p) == <<R(3, 1), RSub(p.height, R(3, 1))>>
\* left_pull_x with the sign of pull_from_edge of the right pull
LeftPullXMirrored(p) ==
    RSub(RAdd(RDiv(p.width, Two), pull_from_edge), RDiv(door_gap, Two))
left_pull_x(p) ==
    RSub(RSub(RDiv(p.width, Two), pull_from_edge), RDiv(door_gap, Two))
right_pull_x(p) ==
    RAdd(RAdd(RDiv(p.width, Two), pull_from_edge), RDiv(door_gap, Two))
pull_z(p) == RSub(RSub(p.height, pull_from_top), top_gap)

\* f"Cabinet_{width:.0f}x{depth:.0f}x{height:.1f}"; the last number in tenths
layer_name(p) ==
    <<"Cabinet", RoundHalfEven(p.width, 1), RoundHalfEven(p.depth, 1),
      RoundHalfEven(p.height, 10)>>

(* the objects *)

\* rg.Box(rg.Plane(origin, XAxis, <second axis>), Interval(0, ex), Interval(0, ey),
\* Interval(0, ez)) added as a Brep and named. plane is "XY" (the box's own axes
\* are the world's) or "XZ" (its second axis is the world's Z).
Box(name, plane, origin, ext) ==
    [name |-> name, kind |-> "box", plane |-> plane, origin |-> origin,
     ext |-> ext, layer |-> 0]

\* sc.doc.Objects.AddPoint(rg.Point3d(x, y, z)), named
Point(name, at) ==
    [name |-> name, kind |-> "point", plane |-> "", origin |-> at,
     ext |-> <<>>, layer |-> 0]

Carcase(p) ==
    << Box("Side Left", "XY", <<Zero, Zero, Zero>>,
           <<p.thickness, side_width(p), p.height>>),
       Box("Side Right", "XY", <<RSub(p.width, p.thickness), Zero, Zero>>,
           <<p.thickness, side_width(p), p.height>>),
       Box("Back", "XZ",
           <<R(1, 2), RAdd(RSub(side_width(p), R(1, 1)), back_thickness), Zero>>,
           <<back_width(p), back_thickness, p.height>>),
       Box("Bottom", "XY", <<p.thickness, R(1, 16), Zero>>,
           <<bottom_width(p), bottom_depth(p), p.thickness>>),
       Box("Front Stretcher", "XY",
           <<p.thickness, R(65, 16), RSub(p.height, stretcher_width)>>,
           <<bottom_width(p), p.thickness, stretcher_width>>),
       Box("Back Stretcher", "XY",
           <<p.thickness, RSub(side_width(p), R(1, 1)),
             RSub(p.height, stretcher_width)>>,
           <<bottom_width(p), p.thickness, stretcher_width>>) >>

\* the shelf's name without the loop index
ShelfNameAllFirst(i) == "Shelf 1"
ShelfName(i) == "Shelf " \o ToString(i + 1)

\* range(shelf_count) under "if shelf_count > 0"
Shelves(p) ==
    IF p.shelf_count > 0
    THEN [k \in 1..p.shelf_count |->
            Box(ShelfName(k - 1), "XY",
                <<RAdd(p.thickness, R(1, 32)), R(1, 4), z_pos(p, k - 1)>>,
                <<shelf_width(p), shelf_depth(p), p.thickness>>)]
    ELSE <<>>

Doors(p) ==
    << Box("Door Left", "XY", <<LeftDoorX(p), DoorY, bottom_gap>>,
           <<door_width(p), p.thickness, door_height(p)>>),
       Box("Door Right", "XY", <<RightDoorX(p), DoorY, bottom_gap>>,
           <<door_width(p), p.thickness, door_height(p)>>) >>

Hinges(p) ==
    LET hz == hinge_z_positions(p)
    IN  [k \in 1..Len(hz) |->
            Point("Hinge Left " \o ToString(k), <<p.thickness, HingeY, hz[k]>>)]
        \o
        [k \in 1..Len(hz) |->
            Point("Hinge Right " \o ToString(k),
                  <<RSub(p.width, p.thickness), HingeY, hz[k]>>)]

Pulls(p) ==
    << Point("Pull Left", <<left_pull_x(p), DoorY, pull_z(p)>>),
       Point("Pull Right", <<right_pull_x(p), DoorY, pull_z(p)>>) >>

\* everything the function adds, in the order it adds it
Components(p) == Carcase(p) \o Shelves(p) \o Doors(p) \o Hinges(p) \o Pulls(p)

\* A box one of whose intervals is empty or reversed. Whether the geometry kernel
\* makes a Brep of it is not decided by the script: ToBrep() may give nothing, and
\* then the lookup of the added object fails on the next line.
Degenerate(o) ==
    o.kind = "box" /\ \E k \in 1..3 : RLe(o.ext[k], Zero)

FirstDegenerate(seq) ==
    IF \E k \in 1..Len(seq) : Degenerate(seq[k])
    THEN CHOOSE k \in 1..Len(seq) :
            Degenerate(seq[k]) /\ \A j \in 1..(k - 1) : ~Degenerate(seq[j])
    ELSE 0

\* sc.doc.Layers.FindName: the index of the layer, -1 when there is none
FindName(ls, name) ==
    IF \E k \in 1..Len(ls) : ls[k] = name
    THEN (CHOOSE k \in 1..Len(ls) :
            ls[k] = name /\ \A j \in 1..(k - 1) : ls[j] # name) - 1
    ELSE -1

(* the arguments tried: the defaults, small cabinets, and invalid values *)

Widths == {R(0, 1), R(1, 1), R(2, 1), R(19, 2), R(77, 8), R(30, 1)}
Depths == {R(0, 1), R(2, 1), R(24, 1)}
Heights == {R(1, 8), R(1, 1), R(3, 1), R(4, 1), R(61, 2)}
Thicknesses == {R(0, 1), R(1, 32), R(1, 4), R(3, 4), R(1, 1), R(4, 1)}
ShelfCounts == (-1)..MaxShelves

Params ==
    [width : Widths, depth : Depths, height : Heights,
     thickness : Thicknesses, shelf_count : ShelfCounts]

Defaults ==
    [width |-> R(30, 1), depth |-> R(24, 1), height |-> R(61, 2),
     thickness |-> R(3, 4), shelf_count |-> 1]

InitCabinet ==
    /\ cpc = "start"
    /\ result = "none"
    /\ objects = <<>>
    /\ layers = << <<"Default">> >>

\* create_parametric_cabinet(width, depth, height, shelf_count, thickness)
create_parametric_cabinet ==
    /\ cpc = "start"
    /\ cpc' = "done"
    /\ LET all == Components(params)
           bad == FirstDegenerate(all)
           found == FindName(layers, layer_name(params))
           layer_index == IF found < 0 THEN Len(layers) ELSE found
       IN  \/ /\ result' = "returned"
              /\ objects' = [k \in 1..Len(all) |->
                               [all[k] EXCEPT !.layer = layer_index]]
              /\ layers' = IF found < 0
                           THEN Append(layers, layer_name(params))
                           ELSE layers
           \/ /\ bad > 0
              /\ result' = "crashed"
              /\ objects' = SubSeq(all, 1, bad - 1)
              /\ layers' = layers
    /\ UNCHANGED <<params, bvars>>

-----------------------------------------------------------------------------
(* BlockLibrary.py *)

\* A string of the script that is taken apart (a file path) is a sequence of
\* pieces: path components, "/" and the extension ".3dm".
CatalogFile == <<"catalog.json">>

\* str.replace(old, new) on such a string; new = "" drops the piece
Replace(s, old, new) ==
    LET Sub(x) == IF x = old THEN new ELSE x
        mapped == [k \in 1..Len(s) |-> Sub(s[k])]
    IN  SelectSeq(mapped, LAMBDA x : x # "")

\* A catalog entry. has: which of the optional keys the JSON object holds.
Block(name, has, cat, desc, file, id) ==
    [name |-> name, has |-> has, category |-> cat, description |-> desc,
     file |-> file, id |-> id]

NoBlock == Block("", {}, "", "", <<>>, <<>>)
Chair ==
    Block("Chair", {"category", "description", "id"}, "furniture", "Dining chair",
          <<"furniture", "/", "chair", ".3dm">>, <<"chair">>)
Table == Block("Table", {}, "", "", <<"furniture", "/", "table", ".3dm">>, <<>>)
\* shown in the list box exactly as Chair is
Chair2 ==
    Block("Chair", {"category", "description"}, "furniture", "Dining chair",
          <<"chair2", ".3dm">>, <<>>)

\* What is read from catalog.json: a dict with the keys in keys, or a text
\* json.load rejects. None is Python's None.
Json(keys, blocks) ==
    [none |-> FALSE, valid |-> TRUE, keys |-> keys, blocks |-> blocks]
InvalidJson == [none |-> FALSE, valid |-> FALSE, keys |-> {}, blocks |-> <<>>]
None == [none |-> TRUE, valid |-> TRUE, keys |-> {}, blocks |-> <<>>]

\* The catalog.json the server may hold.
Served ==
    { InvalidJson,
      Json({}, <<>>),
      Json({"library_info"}, <<>>),
      Json({"library_info", "blocks"}, <<Chair, Table>>),
      Json({"blocks"}, <<Chair, Chair2>>) }

Points == { <<1, 2, 0>> }
NoPoint == <<>>

\* "if not catalog": None and the empty dict are false
Truthy(c) == ~c.none /\ c.keys # {}

\* catalog.get('blocks', [])
CatalogBlocks(c) == IF "blocks" \in c.keys THEN c.blocks ELSE <<>>

\* block.get('category', 'uncategorized'), block.get('description', '')
CategoryOf(b) == IF "category" \in b.has THEN b.category ELSE "uncategorized"
DescriptionOf(b) == IF "description" \in b.has THEN b.description ELSE ""

\* get_blocks_by_category(catalog)[cat], and its keys
blocks_in_cat(c, cat) ==
    SelectSeq(CatalogBlocks(c), LAMBDA b : CategoryOf(b) = cat)
categories(c) ==
    {CategoryOf(CatalogBlocks(c)[k]) : k \in 1..Len(CatalogBlocks(c))}

\* f"{b['name']} - {b.get('description', '')}"
block_names(c, cat) ==
    LET bs == blocks_in_cat(c, cat)
    IN  [k \in 1..Len(bs) |-> <<bs[k].name, DescriptionOf(bs[k])>>]

\* block_names.index(selected): the first entry shown as selected
selected_index(names, selected) ==
    CHOOSE k \in 1..Len(names) :
        names[k] = selected /\ \A j \in 1..(k - 1) : names[j] # selected

\* block_info.get('id', block_file.replace('/', '_').replace('.3dm', ''))
block_id(b) ==
    IF "id" \in b.has THEN b.id
    ELSE Replace(Replace(b.file, "/", "_"), ".3dm", "")

\* block_file.replace('/', '_'), the file's name in the cache directory
local_file(b) == Replace(b.file, "/", "_")

\* the test of line 125 never finding the block
BlockExistsNever(id, names) == FALSE
\* block_id in existing_blocks
BlockExists(id, names) == id \in names

\* download_file returning True from its except branch too
DownloadFileAlwaysTrue(ok) == TRUE
\* download_file: True when WebClient.DownloadFile returned, False when it raised
download_file(ok) == ok

\* load_catalog: the parsed catalog, or None when the download or json.load fails
load_catalog(ok, served) ==
    IF download_file(ok) /\ served.valid THEN served ELSE None

InitBlocks ==
    /\ pc = "idle"
    /\ runs = 0
    /\ docBlocks = {}
    /\ instances = <<>>
    /\ cacheDir \in BOOLEAN
    /\ cache = {}
    /\ catalog = None
    /\ category = ""
    /\ block_info = NoBlock
    /\ insert_point = NoPoint
    /\ docAtEntry = [blocks |-> {}, instances |-> <<>>]
    /\ log = <<>>

Options ==
    {"Browse and Insert Block", "Show Library Info", "Clear Cache", "Cancel"}

\* main(): the menu and its answer (choice "" is a dismissed list box)
Main ==
    /\ pc = "idle"
    /\ runs < MaxRuns
    /\ runs' = runs + 1
    /\ docAtEntry' = [blocks |-> docBlocks, instances |-> instances]
    /\ log' = <<"ListBox:menu">>
    /\ catalog' = None
    /\ category' = ""
    /\ block_info' = NoBlock
    /\ insert_point' = NoPoint
    /\ \E choice \in Options \cup {""} :
          pc' = CASE choice = "Browse and Insert Block" -> "browse"
                  [] choice = "Show Library Info" -> "info"
                  [] choice = "Clear Cache" -> "clear"
                  [] OTHER -> "idle"
    /\ UNCHANGED <<cvars, docBlocks, instances, cacheDir, cache>>

\* The download of load_catalog: its log entry and the cache after it.
CatalogDownload(ok) ==
    /\ cacheDir' = TRUE
    /\ cache' = IF ok THEN cache \cup {CatalogFile} ELSE cache

\* browse_and_insert, up to the list box of categories
BrowseLoad ==
    /\ pc = "browse"
    /\ \E ok \in BOOLEAN, served \in Served :
          LET c == load_catalog(ok, served)
              dl == IF ok THEN "download_catalog:ok" ELSE "download_catalog:fail"
          IN  /\ CatalogDownload(ok)
              /\ catalog' = c
              /\ IF ~Truthy(c)
                 THEN /\ log' = log \o <<dl, "MessageBox:load_failed">>
                      /\ pc' = "idle"
                 ELSE IF categories(c) = {}
                 THEN /\ log' = log \o <<dl, "MessageBox:no_blocks">>
                      /\ pc' = "idle"
                 ELSE /\ log' = log \o <<dl, "ListBox:category">>
                      /\ pc' = "choose_category"
    /\ UNCHANGED <<cvars, runs, docBlocks, instances, category, block_info,
                   insert_point, docAtEntry>>

\* browse_and_insert: the category picked, or the list box dismissed
ChooseCategory ==
    /\ pc = "choose_category"
    /\ \/ /\ pc' = "idle"
          /\ UNCHANGED <<category, log>>
       \/ \E cat \in categories(catalog) :
             /\ category' = cat
             /\ log' = Append(log, "ListBox:block")
             /\ pc' = "choose_block"
    /\ UNCHANGED <<cvars, runs, docBlocks, instances, cacheDir, cache, catalog,
                   block_info, insert_point, docAtEntry>>

\* browse_and_insert: the block picked, and the call of insert_block
ChooseBlock ==
    /\ pc = "choose_block"
    /\ \/ /\ pc' = "idle"
          /\ UNCHANGED block_info
       \/ LET names == block_names(catalog, category)
          IN  \E k \in 1..Len(names) :
                 /\ block_info' =
                        blocks_in_cat(catalog, category)[selected_index(names, names[k])]
                 /\ pc' = "insert_block"
    /\ UNCHANGED <<cvars, runs, docBlocks, instances, cacheDir, cache, catalog,
                   category, insert_point, docAtEntry, log>>

\* insert_block, lines 117-146: the block is in the document (ask), or is fetched
InsertBlockStart ==
    /\ pc = "insert_block"
    /\ IF BlockExists(block_id(block_info), docBlocks)
       THEN /\ log' = log \o <<"BlockNames", "MessageBox:exists">>
            /\ pc' = "ask_existing"
            /\ UNCHANGED cacheDir
       ELSE /\ log' = Append(log, "BlockNames")
            /\ cacheDir' = TRUE
            /\ pc' = "download_block"
    /\ UNCHANGED <<cvars, runs, docBlocks, instances, cache, catalog, category,
                   block_info, insert_point, docAtEntry>>

\* insert_block, lines 131-134: the answer to "Insert another instance?"
AnswerExisting ==
    /\ pc = "ask_existing"
    /\ \E answer \in {6, 7} :
          IF answer = 7
          THEN /\ pc' = "idle"
               /\ UNCHANGED log
          ELSE /\ pc' = "pick_existing"
               /\ log' = Append(log, "GetPoint")
    /\ UNCHANGED <<cvars, runs, docBlocks, instances, cacheDir, cache, catalog,
                   category, block_info, insert_point, docAtEntry>>

\* insert_block, lines 134-137: the point picked and rs.InsertBlock
PickExisting ==
    /\ pc = "pick_existing"
    /\ pc' = "idle"
    /\ \E pt \in Points \cup {NoPoint} :
          /\ insert_point' = pt
          /\ IF pt # NoPoint
             THEN /\ instances' = Append(instances, <<block_id(block_info), pt>>)
                  /\ log' = Append(log, "InsertBlock")
             ELSE UNCHANGED <<instances, log>>
    /\ UNCHANGED <<cvars, runs, docBlocks, cacheDir, cache, catalog, category,
                   block_info, docAtEntry>>

\* insert_block, lines 146-153: the download and what follows it
DownloadBlock ==
    /\ pc = "download_block"
    /\ \E ok \in BOOLEAN :
          /\ cache' = IF ok THEN cache \cup {local_file(block_info)} ELSE cache
          /\ IF ~download_file(ok)
             THEN /\ log' = log \o
                        <<IF ok THEN "download_block:ok" ELSE "download_block:fail",
                          "MessageBox:download_error">>
                  /\ pc' = "idle"
             ELSE /\ log' = log \o
                        <<IF ok THEN "download_block:ok" ELSE "download_block:fail",
                          "GetPoint">>
                  /\ pc' = "pick_point"
    /\ UNCHANGED <<cvars, runs, docBlocks, instances, cacheDir, catalog, category,
                   block_info, insert_point, docAtEntry>>

\* insert_block, lines 153-165: the point picked and the _-Insert command, which
\* imports the file as a block (done), does nothing (refused) or raises (raised)
PickPoint ==
    /\ pc = "pick_point"
    /\ pc' = "idle"
    /\ \E pt \in Points \cup {NoPoint} :
          /\ insert_point' = pt
          /\ IF pt = NoPoint
             THEN UNCHANGED <<docBlocks, instances, log>>
             ELSE \E outcome \in {"done", "refused", "raised"} :
                    /\ docBlocks' = IF outcome = "done"
                                    THEN docBlocks \cup {block_id(block_info)}
                                    ELSE docBlocks
                    /\ instances' = IF outcome = "done"
                                    THEN Append(instances, <<block_id(block_info), pt>>)
                                    ELSE instances
                    /\ log' = IF outcome = "raised"
                              THEN log \o <<"Command", "MessageBox:insert_error">>
                              ELSE Append(log, "Command")
    /\ UNCHANGED <<cvars, runs, cacheDir, cache, catalog, category, block_info,
                   docAtEntry>>

\* show_library_info
ShowLibraryInfo ==
    /\ pc = "info"
    /\ pc' = "idle"
    /\ \E ok \in BOOLEAN, served \in Served :
          LET c == load_catalog(ok, served)
              dl == IF ok THEN "download_catalog:ok" ELSE "download_catalog:fail"
          IN  /\ CatalogDownload(ok)
              /\ catalog' = c
              /\ log' = log \o <<dl, IF Truthy(c) THEN "MessageBox:info"
                                     ELSE "MessageBox:info_failed">>
    /\ UNCHANGED <<cvars, runs, docBlocks, instances, category, block_info,
                   insert_point, docAtEntry>>

\* clear_cache: rmtree removes the directory, or raises part of the way
ClearCache ==
    /\ pc = "clear"
    /\ pc' = "idle"
    /\ \/ /\ cacheDir' = FALSE
          /\ cache' = {}
          /\ log' = Append(log, "MessageBox:cache_cleared")
       \/ /\ cacheDir
          /\ cacheDir' = TRUE
          /\ cache' \in SUBSET cache
          /\ log' = Append(log, "MessageBox:cache_error")
    /\ UNCHANGED <<cvars, runs, docBlocks, instances, catalog, category, block_info,
                   insert_point, docAtEntry>>

-----------------------------------------------------------------------------
(* The two programs *)

Init ==
    /\ params \in Params
    /\ InitCabinet
    /\ InitBlocks
    /\ cacheDir = FALSE

NextCabinet == create_parametric_cabinet

Spec == Init /\ [][NextCabinet]_vars

InitLibrary ==
    /\ params = Defaults
    /\ InitCabinet
    /\ InitBlocks

NextBlocks ==
    \/ Main
    \/ BrowseLoad
    \/ ChooseCategory
    \/ ChooseBlock
    \/ InsertBlockStart
    \/ AnswerExisting
    \/ PickExisting
    \/ DownloadBlock
    \/ PickPoint
    \/ ShowLibraryInfo
    \/ ClearCache

SpecBlocks == InitLibrary /\ [][NextBlocks]_vars

-----------------------------------------------------------------------------
(* Properties of create_parametric_cabinet *)

\* The validator's conditions of the specification: all lengths positive,
\* thickness under half of each, shelf_count not negative.
Valid(p) ==
    /\ RLt(Zero, p.width) /\ RLt(Zero, p.depth)
    /\ RLt(Zero, p.height) /\ RLt(Zero, p.thickness)
    /\ RLt(RMul(Two, p.thickness), p.width)
    /\ RLt(RMul(Two, p.thickness), p.depth)
    /\ RLt(RMul(Two, p.thickness), p.height)
    /\ p.shelf_count >= 0

\* A derived extent or the shelf spacing is <= 0.
Infeasible(p) ==
    \/ FirstDegenerate(Components(p)) > 0
    \/ p.shelf_count >= 0 /\ RLe(shelf_spacing(p), Zero)

Returned == cpc = "done" /\ result = "returned"

\* Every box of the call has positive extents, so that the kernel's treatment
\* of an empty or reversed box plays no part in what the call produced.
AllBoxesProper == FirstDegenerate(Components(params)) = 0

Has(name) == \E k \in 1..Len(objects) : objects[k].name = name
Obj(name) == objects[CHOOSE k \in 1..Len(objects) : objects[k].name = name]

\* the world X and Z ranges of a box built on the XY plane
XLow(o) == RMin(o.origin[1], RAdd(o.origin[1], o.ext[1]))
XHigh(o) == RMax(o.origin[1], RAdd(o.origin[1], o.ext[1]))
ZLow(o) == RMin(o.origin[3], RAdd(o.origin[3], o.ext[3]))
ZHigh(o) == RMax(o.origin[3], RAdd(o.origin[3], o.ext[3]))

HingeNames == {"Hinge Left 1", "Hinge Left 2", "Hinge Right 1", "Hinge Right 2"}
StructuralNames ==
    {"Side Left", "Side Right", "Back", "Bottom", "Front Stretcher",
     "Back Stretcher", "Door Left", "Door Right"}
PointNames == HingeNames \cup {"Pull Left", "Pull Right"}
ShelfNames(n) == {"Shelf " \o ToString(k) : k \in 1..n}

\* C1 (as claimed): a call with invalid or infeasible arguments ends in an
\* error and adds no panel and no point. Stated for the arguments whose boxes
\* all have positive extents: those the validator of the specification rejects
\* and those whose shelf spacing is <= 0.
C1_InvalidInputRejected ==
    (cpc = "done" /\ AllBoxesProper /\ (~Valid(params) \/ Infeasible(params)))
        => (result # "returned" /\ objects = <<>>)

HingesInside ==
    \A n \in HingeNames :
        Has(n) /\ RLt(Zero, Obj(n).origin[3]) /\ RLt(Obj(n).origin[3], params.height)

\* C2 (as claimed): for every valid CabinetParameters the four hinge points have
\* a Z strictly inside (0, height). Stated for the valid parameters whose boxes
\* all have positive extents.
C2_HingesInsideForAllValid ==
    (Returned /\ Valid(params) /\ AllBoxesProper) => HingesInside

\* C2 (amended): for every valid CabinetParameters with height > 3 the four hinge
\* points have a Z strictly inside (0, height).
C2_HingesInsideAboveThree ==
    (Returned /\ Valid(params) /\ RLt(R(3, 1), params.height)) => HingesInside

C2_Witness ==
    /\ Returned /\ Valid(params) /\ RLt(R(3, 1), params.height)
    /\ Has("Hinge Right 2") /\ Obj("Hinge Right 2").origin[3] = R(1, 1)

ShelfZ(k) == Obj("Shelf " \o ToString(k)).origin[3]

\* C3 (as claimed): for every shelf_count N >= 0 and valid dimensions the Z of
\* Shelf 1..N increases strictly in steps of shelfSpacing + thickness, the first
\* is > 0 and the last is < height. Stated for the valid parameters whose boxes
\* all have positive extents.
C3_ShelvesEvenlySpacedInside ==
    (Returned /\ Valid(params) /\ AllBoxesProper) =>
        LET n == params.shelf_count
            step == RAdd(shelf_spacing(params), params.thickness)
        IN  /\ \A k \in 1..n : Has("Shelf " \o ToString(k))
            /\ \A k \in 1..(n - 1) :
                  /\ RLt(ShelfZ(k), ShelfZ(k + 1))
                  /\ RSub(ShelfZ(k + 1), ShelfZ(k)) = step
            /\ n > 0 => (RLt(Zero, ShelfZ(1)) /\ RLt(ShelfZ(n), params.height))

\* C4: Door Left and Door Right have the same doorWidth, and for every width
\* 2*doorWidth + 2*doorGap + doorGap = width.
C4_DoorsSymmetric ==
    Returned =>
        /\ Has("Door Left") /\ Has("Door Right")
        /\ Obj("Door Left").ext[1] = Obj("Door Right").ext[1]
        /\ RAdd(RMul(Two, Obj("Door Left").ext[1]),
                RAdd(RMul(Two, door_gap), door_gap)) = params.width

C4_Witness ==
    /\ Returned /\ params = Defaults
    /\ Obj("Door Right").ext[1] = R(237, 16)

\* C5 (as claimed): the clearance between the doors, Door Right's left edge minus
\* Door Left's right edge, is doorGap. Stated for the valid parameters whose
\* boxes all have positive extents.
C5_ClearanceIsDoorGap ==
    (Returned /\ Valid(params) /\ AllBoxesProper) =>
        RSub(Obj("Door Right").origin[1],
             RAdd(Obj("Door Left").origin[1], Obj("Door Left").ext[1])) = door_gap

PullInside(pull, door) ==
    /\ Has(pull) /\ Has(door)
    /\ RLe(XLow(Obj(door)), Obj(pull).origin[1])
    /\ RLe(Obj(pull).origin[1], XHigh(Obj(door)))
    /\ RLe(ZLow(Obj(door)), Obj(pull).origin[3])
    /\ RLe(Obj(pull).origin[3], ZHigh(Obj(door)))

PullsInside ==
    PullInside("Pull Left", "Door Left") /\ PullInside("Pull Right", "Door Right")

\* C6 (as claimed): for every valid CabinetParameters each pull lies within the
\* face of its own door. Stated for the valid parameters whose boxes all have
\* positive extents.
C6_PullsInsideForAllValid ==
    (Returned /\ Valid(params) /\ AllBoxesProper) => PullsInside

\* C6 (amended): for every valid CabinetParameters with width >= 9.625 and
\* height >= 0.1875 each pull lies within the face of its own door.
C6_PullsInsideWideEnough ==
    (/\ Returned /\ Valid(params)
     /\ RLe(R(77, 8), params.width) /\ RLe(R(3, 16), params.height)) => PullsInside

C6_Witness ==
    /\ Returned /\ Valid(params) /\ params.width = R(77, 8)
    /\ Obj("Pull Right").origin[1] = XHigh(Obj("Door Right"))

BetweenSides(o) ==
    /\ RLe(params.thickness, XLow(o))
    /\ RLe(XHigh(o), RSub(params.width, params.thickness))

\* C7 (as claimed): for every valid CabinetParameters the Bottom and every Shelf
\* lie between the inner faces of the sides: X range within
\* [thickness, width - thickness]. Stated for the valid parameters whose boxes
\* all have positive extents.
C7_BottomAndShelvesBetweenSides ==
    (Returned /\ Valid(params) /\ AllBoxesProper) =>
        \A k \in 1..Len(objects) :
            objects[k].name \in {"Bottom"} \cup ShelfNames(params.shelf_count)
                => BetweenSides(objects[k])

\* C8: a call that returns with shelf_count N >= 0 returns 14 + N entries with
\* distinct names: the 8 panels, Shelf 1..N and the 6 points; none is a shelf
\* when N = 0, and the defaults return 15.
C8_EntriesAndNames ==
    /\ (Returned /\ params.shelf_count >= 0) =>
          LET n == params.shelf_count
          IN  /\ Len(objects) = 14 + n
              /\ \A j, k \in 1..Len(objects) :
                    j # k => objects[j].name # objects[k].name
              /\ {objects[k].name : k \in 1..Len(objects)}
                    = StructuralNames \cup ShelfNames(n) \cup PointNames
              /\ \A k \in 1..Len(objects) :
                    objects[k].kind = (IF objects[k].name \in PointNames
                                       THEN "point" ELSE "box")
    /\ (cpc = "done" /\ params = Defaults) =>
          (result = "returned" /\ Len(objects) = 15)
    /\ (cpc = "done" /\ params = [Defaults EXCEPT !.shelf_count = 0]) =>
          (result = "returned" /\ Len(objects) = 14)

C8_Witness ==
    /\ Returned /\ Valid(params) /\ AllBoxesProper
    /\ params.shelf_count = 0 /\ Len(objects) = 14
    /\ ~Has("Shelf 1")

-----------------------------------------------------------------------------
(* Properties of the block importer *)

InLog(e) == \E k \in 1..Len(log) : log[k] = e

DocUnchanged ==
    docBlocks = docAtEntry.blocks /\ instances = docAtEntry.instances

\* insert_block was called for a block whose identifier the document held
ExistingBlockChosen ==
    block_info # NoBlock /\ block_id(block_info) \in docAtEntry.blocks

\* C9: insert_block of a block already in the document downloads nothing and
\* runs no import; it inserts the existing block at the picked point, or
\* nothing when the answer is No or no point is picked.
C9_ExistingBlockNotDownloaded ==
    ExistingBlockChosen =>
        /\ ~InLog("download_block:ok") /\ ~InLog("download_block:fail")
        /\ ~InLog("Command")
        /\ docBlocks = docAtEntry.blocks
        /\ pc \in {"insert_block", "ask_existing", "pick_existing", "idle"}
        /\ IF InLog("InsertBlock")
           THEN /\ insert_point # NoPoint
                /\ instances = Append(docAtEntry.instances,
                                      <<block_id(block_info), insert_point>>)
           ELSE instances = docAtEntry.instances

C9_Witness ==
    ExistingBlockChosen /\ pc = "idle" /\ InLog("InsertBlock")

\* C10: a failed block download is reported and insert_block returns before a
\* point is asked for or a block inserted; a failed catalog download is
\* reported and no category or block is offered; the document is as it was.
C10_FailedDownloadAborts ==
    /\ InLog("download_block:fail") =>
          /\ InLog("MessageBox:download_error")
          /\ ~InLog("GetPoint") /\ ~InLog("Command") /\ ~InLog("InsertBlock")
          /\ pc = "idle"
          /\ DocUnchanged
    /\ InLog("download_catalog:fail") =>
          /\ InLog("MessageBox:load_failed") \/ InLog("MessageBox:info_failed")
          /\ ~InLog("ListBox:category") /\ ~InLog("ListBox:block")
          /\ ~InLog("GetPoint") /\ ~InLog("Command") /\ ~InLog("InsertBlock")
          /\ pc = "idle"
          /\ DocUnchanged

C10_Witness ==
    /\ InLog("download_block:fail") /\ pc = "idle"
    /\ docAtEntry.blocks # {} /\ docBlocks = docAtEntry.blocks

=============================================================================
